---- MODULE Spec2Model ----
(***************************************************************************)
(* Jarvis: an LLM agent wired to Google account tools.                     *)
(*                                                                         *)
(* The model covers the per-alias credential store and the credential      *)
(* resolver get_credentials of calendar_tools.py, gmail_tools.py and       *)
(* tasks_tools.py, the tool adapters built on it, the Keep tools of        *)
(* gkeep_tools.py and keep_tools.py, and the two delivery surfaces         *)
(* (server.py webhook, agent.py interactive loop).                         *)
(*                                                                         *)
(* Text (exception messages, tool results) is a sequence of string         *)
(* fragments in the order the f-strings of the source put them.            *)
(***************************************************************************)
EXTENDS Integers, Sequences, FiniteSets, TLC

(* ------------------------------ bounds -------------------------------- *)

\* The clock runs from 0 to MaxTime.
MaxTime == 1

\* The authorization server grants access tokens that live 1..MaxLifetime ticks.
MaxLifetime == 1

\* Access tokens are numbered; the server issues at most MaxIssued refreshed ones.
MaxIssued == 1

\* A conversation memory holds at most MaxTurns turns.
MaxTurns == 2

\* The server process is restarted at most MaxRestarts times.
MaxRestarts == 1

\* A listing request returns at most MaxItems entities.
MaxItems == 2

(* ----------------------------- constants ------------------------------ *)

Aliases == {"personal", "work"}

Procs == {1, 2}

\* The agent issues tool calls one at a time within a turn.
SeqProcs == {1}

CalendarTools == {"search_calendar_events", "create_event", "update_event", "delete_event"}

GmailTools == {"search_gmail", "get_gmail_message", "send_gmail_message",
               "create_gmail_draft", "trash_gmail_message"}

TasksTools == {"list_task_lists", "get_task_list", "create_task_list", "update_task_list",
               "delete_task_list", "get_tasks", "get_task", "create_task", "update_task",
               "complete_task", "delete_task", "move_task", "clear_completed_tasks"}

AliasModules == {"calendar", "gmail", "tasks"}

ModuleTools(m) ==
    CASE m = "calendar" -> CalendarTools
      [] m = "gmail"    -> GmailTools
      [] m = "tasks"    -> TasksTools

(* ------------------------- credential records ------------------------- *)

\* token 0 is None (no access token in the record).
NoToken == 0

\* The token written by enrollment; refreshed tokens are EnrolledToken + 1, ...
EnrolledToken == 1

NoCreds ==
    [present |-> FALSE, token |-> NoToken, refresh_token |-> FALSE, expiry |-> 0,
     micro |-> 0]

AbsentFile ==
    [kind |-> "absent", token |-> NoToken, refresh_token |-> FALSE, expiry |-> 0,
     micro |-> 0]

\* A file that exists and holds no parseable authorized-user JSON
\* (empty after open(path, "w"), or otherwise damaged).
EmptyFile ==
    [kind |-> "corrupt", token |-> NoToken, refresh_token |-> FALSE, expiry |-> 0,
     micro |-> 0]

\* The part of an expiry below the second. A granted or refreshed credential
\* gets expiry = utcnow() + expires_in, and utcnow() has microsecond resolution:
\* 1 stands for the microseconds of such an expiry, 0 for a whole second (the
\* one reading in a million that falls on a whole second is left out).
SubSeconds == {1}

\* creds.to_json(): the text written to the token file; the expiry is written
\* with datetime.isoformat(), microseconds included.
ToJson(c) ==
    [kind |-> "json", token |-> c.token, refresh_token |-> c.refresh_token,
     expiry |-> c.expiry, micro |-> c.micro]

\* Credentials.from_authorized_user_file(token_path, SCOPES) on a parseable file;
\* the expiry is parsed from the text before the '.', to the whole second.
FromAuthorizedUserFile(f) ==
    [present |-> TRUE, token |-> f.token, refresh_token |-> f.refresh_token,
     expiry |-> f.expiry, micro |-> 0]

\* creds.expired at time t.
Expired(c, t) == t >= c.expiry

\* creds.valid at time t: an access token is present and it is not expired.
Valid(c, t) == c.token # NoToken /\ ~Expired(c, t)

\* The shapes a provisioned token file can have when the process starts.
InitFiles ==
    {AbsentFile, EmptyFile}
      \cup {[kind |-> "json", token |-> tk, refresh_token |-> rt, expiry |-> 1,
            micro |-> us] :
              tk \in {NoToken, EnrolledToken}, rt \in BOOLEAN, us \in SubSeconds}

\* On Render the secret files sit at the root; the credentials directory of the
\* deployment is missing, or holds a copy of each alias's enrolled record.
DeployedFiles ==
    {AbsentFile,
     [kind |-> "json", token |-> EnrolledToken, refresh_token |-> TRUE, expiry |-> 1,
      micro |-> 1]}

(* ------------------------------- paths -------------------------------- *)

Dirs == {"credentials/", ""}

\* token_path of get_credentials: calendar and tasks always look inside
\* CREDENTIALS_DIR; gmail looks at the root when RENDER == 'true'.
TokenDir(m, render) ==
    IF m = "gmail" /\ render THEN "" ELSE "credentials/"

\* token_path = os.path.join(<directory>, f"{account_alias}.json")
MutTokenPathSingleFile(m, render, a) == [dir |-> TokenDir(m, render), alias |-> "personal"]

TokenPath(m, render, a) == [dir |-> TokenDir(m, render), alias |-> a]

(* ------------------------------ messages ------------------------------ *)

NoExc == [type |-> "none", msg |-> <<>>]

\* FileNotFoundError raised when the alias's token file does not exist.
MutNotFoundChecksClientSecrets(m, a, d, haveClientSecrets) ==
    IF ~haveClientSecrets
    THEN [type |-> "FileNotFoundError",
          msg |-> <<"Main", "credentials.json", "not found. Cannot proceed.">>]
    ELSE [type |-> "FileNotFoundError",
          msg |-> <<"Credentials file not found", "for account alias", a, "at",
                    d, a, ".json", "Please run", "add_account.py">>]

NotFoundError(m, a, d, haveClientSecrets) ==
    IF m = "gmail"
    THEN IF ~haveClientSecrets
         THEN [type |-> "FileNotFoundError",
               msg |-> <<"Main", "credentials.json", "not found. Cannot proceed.">>]
         ELSE [type |-> "FileNotFoundError",
               msg |-> <<"Credentials file not found", "for alias", a, "at expected path:",
                         d, a, ".json", "Ensure the secret file", a, ".json",
                         "exists on Render or run", "add_account.py", "locally.">>]
    ELSE [type |-> "FileNotFoundError",
          msg |-> <<"Credentials file not found", "for account alias", a, "at",
                    d, a, ".json", "Please run", "add_account.py">>]

\* The ConnectionError raised inside the try block when the credential is not
\* valid and the refresh branch is not taken.
InvalidError(m, a) ==
    IF m = "gmail"
    THEN [type |-> "ConnectionError",
          msg |-> <<"Credentials for", a, "are invalid/expired and cannot be refreshed.",
                    "Please re-run", "add_account.py",
                    "for this alias locally and re-upload the token.">>]
    ELSE [type |-> "ConnectionError",
          msg |-> <<"Credentials for", a, "are invalid and cannot be refreshed.",
                    "Please re-run", "add_account.py", "for this alias.">>]

\* Exceptions of the libraries and the operating system raised inside the try block.
JsonError == [type |-> "ValueError", msg |-> <<"token file is not valid authorized user json">>]

RefreshError == [type |-> "RefreshError", msg |-> <<"invalid_grant">>]

OpenError == [type |-> "OSError", msg |-> <<"cannot open token file for writing">>]

WriteError == [type |-> "OSError", msg |-> <<"cannot write token file">>]

HttpError == [type |-> "HttpError", msg |-> <<"remote api error">>]

\* except Exception as e: raise ConnectionError(...) from e
\* calendar and tasks drop the text of e; gmail appends it after "Details:".
MutWrapReraises(m, a, e) == e

WrapError(m, a, e) ==
    IF m = "gmail"
    THEN [type |-> "ConnectionError",
          msg |-> <<"Could not load or refresh credentials for", a, ". Details:">> \o e.msg]
    ELSE [type |-> "ConnectionError",
          msg |-> <<"Could not load or refresh credentials for", a, ".">>]

Returned(text) == [kind |-> "returned", text |-> text, exc |-> "none"]

Raised(e) == [kind |-> "raised", text |-> e.msg, exc |-> e.type]

NoResult == [kind |-> "none", text |-> <<>>, exc |-> "none"]

\* The except clauses that close every Calendar, Gmail and Tasks tool.
MutToolCatchWrapsAll(m, tool, a, e) == Returned(<<"An error occurred", tool, a>> \o e.msg)

ToolCatch(m, tool, a, e) ==
    IF e.type \in {"FileNotFoundError", "ConnectionError"}
    THEN Returned(e.msg)
    ELSE Returned(<<"An error occurred", tool, a>> \o e.msg)

\* The text a tool returns when its remote operations succeed.
SuccessText(m, tool, a) == <<tool, "succeeded", a>>

Contains(text, fragment) == \E i \in 1..Len(text) : text[i] = fragment

(* ------------------------------- state -------------------------------- *)

VARIABLES
    files,        \* files[d][a]: the token file of alias a in directory d
    now,          \* the clock
    issued,       \* the last access token the authorization server issued
    onRender,     \* os.getenv('RENDER') == 'true'
    clientSecrets,\* credentials.json exists
    pc,           \* pc[p]: where process p is in its tool call
    call,         \* call[p]: the tool call p executes
    creds,        \* creds[p]: get_credentials' local creds
    gcExc,        \* gcExc[p]: the exception get_credentials raised in this call
    result,       \* result[p]: what the tool call returned (or raised)
    hist,         \* hist[p]: what this call has done so far
    keepEnv,      \* GKEEP_EMAIL and GKEEP_MASTER_KEY are set
    keepInstance, \* gkeep_tools._keep_instance: "none" or "session"
    keepSessionOk,\* Google Keep still accepts the cached session
    legacyToken,  \* keep_tools.py: the single-account token.json
    db,           \* server.py: the shelve "conversation_db", keyed by sender
    shelf,        \* shelf[w]: the store as the shelf request w has open sees it
    boots,        \* how many times the server process was restarted
    wpc,          \* wpc[w]: where webhook request w is in the handler
    req,          \* req[w]: the sender and body of request w
    wmem,         \* wmem[w]: the handler's local memory object
    wrounds,      \* wrounds[w]: iterations the executor of request w has run
    whist,        \* whist[w]: what the handler has done for request w
    agentResponse,\* agentResponse[w]: the handler's agent_response
    wreply,       \* wreply[w]: what the request got back over HTTP
    lpc,          \* agent.py: where the interactive loop is
    lline,        \* agent.py: user_input
    lmem,         \* agent.py: the process-lifetime memory
    lrounds,      \* agent.py: iterations the executor has run in this turn
    lout,         \* agent.py: the last text the loop printed
    enroll,       \* add_account.py: the state of one run of main()
    listing       \* the listing tool in progress: its page and its output

envVars == <<onRender, clientSecrets>>

keepVars == <<keepEnv, keepInstance, keepSessionOk, legacyToken>>

hookVars == <<db, shelf, boots, wpc, req, wmem, wrounds, whist, agentResponse, wreply>>

loopVars == <<lpc, lline, lmem, lrounds, lout>>

surfVars == <<hookVars, loopVars>>

\* Everything the delivery surfaces do not touch themselves.
otherVars == <<files, now, issued, envVars, pc, call, creds, gcExc, result, hist, keepVars,
               enroll, listing>>

vars == <<files, now, issued, envVars, pc, call, creds, gcExc, result, hist, keepVars,
          surfVars, enroll, listing>>

NoCall == [module |-> "none", tool |-> "none", alias |-> "none"]

\* before: the token file when the call began; read: the file the call
\* deserialized, at clock loadedAt; then counts of what the call did.
NoHist == [before |-> AbsentFile, loaded |-> FALSE, read |-> AbsentFile, loadedAt |-> 0,
           refreshes |-> 0, opens |-> 0, writes |-> 0, remote |-> 0]

\* No Keep tool is in use.
KeepQuiet ==
    /\ keepEnv = FALSE
    /\ keepInstance = "none"
    /\ keepSessionOk = FALSE
    /\ legacyToken = AbsentFile

Senders == {"whatsapp:alice", "whatsapp:bob"}

NoMemory == [stored |-> FALSE, turns |-> <<>>]

NoRequest == [sender |-> "none", body |-> "none"]

NoReply == [kind |-> "none", text |-> <<>>]

\* No shelf is open.
NoShelf == [s \in Senders |-> NoMemory]

\* loads, turns, saves, replies: how often the handler did each for this request.
NoWhist == [loads |-> 0, turns |-> 0, saves |-> 0, replies |-> 0]

\* add_account.py is not running.
NoEnroll ==
    [pc |-> "idle", alias |-> "none", answer |-> "none", before |-> AbsentFile,
     creds |-> NoCreds, flows |-> 0, opens |-> 0, writes |-> 0]

EnrollQuiet == enroll = NoEnroll

\* No listing tool is running.
NoListing == [pc |-> "idle", tool |-> "none", items |-> <<>>, out |-> <<>>]

ListQuiet == listing = NoListing

\* No request is being handled and nothing was typed yet.
SurfaceQuiet ==
    /\ db = [s \in Senders |-> NoMemory]
    /\ shelf = [w \in Procs |-> NoShelf]
    /\ boots = 0
    /\ wpc = [w \in Procs |-> "idle"]
    /\ req = [w \in Procs |-> NoRequest]
    /\ wmem = [w \in Procs |-> <<>>]
    /\ wrounds = [w \in Procs |-> 0]
    /\ whist = [w \in Procs |-> NoWhist]
    /\ agentResponse = [w \in Procs |-> <<>>]
    /\ wreply = [w \in Procs |-> NoReply]
    /\ lpc = "input"
    /\ lline = "none"
    /\ lmem = <<>>
    /\ lrounds = 0
    /\ lout = <<>>

ProcsIdle ==
    /\ pc = [p \in Procs |-> "idle"]
    /\ call = [p \in Procs |-> NoCall]
    /\ creds = [p \in Procs |-> NoCreds]
    /\ gcExc = [p \in Procs |-> NoExc]
    /\ result = [p \in Procs |-> NoResult]
    /\ hist = [p \in Procs |-> NoHist]

Init ==
    /\ onRender \in BOOLEAN
    /\ clientSecrets \in BOOLEAN
    /\ files \in [Dirs -> [Aliases -> InitFiles]]
    /\ IF onRender
       THEN \E f \in DeployedFiles : \A a \in Aliases : files["credentials/"][a] = f
       ELSE \A a \in Aliases : files[""][a] = AbsentFile
    /\ now = 0
    /\ issued = EnrolledToken
    /\ ProcsIdle
    /\ KeepQuiet
    /\ SurfaceQuiet
    /\ EnrollQuiet
    /\ ListQuiet

TokenPathOf(p) == TokenPath(call[p].module, onRender, call[p].alias)

TokenPathDir(p) == TokenPathOf(p).dir

TokenFile(p) == files[TokenPathOf(p).dir][TokenPathOf(p).alias]

\* The authorization server issues at most MaxIssued refreshed tokens to each
\* call in progress.
IssueOpen ==
    issued < EnrolledToken + MaxIssued * Cardinality({q \in Procs : pc[q] # "idle"})

\* get_credentials raises e: the tool's except clauses turn it into the result.
Fail(p, e) ==
    /\ gcExc' = [gcExc EXCEPT ![p] = e]
    /\ result' = [result EXCEPT ![p] = ToolCatch(call[p].module, call[p].tool, call[p].alias, e)]
    /\ pc' = [pc EXCEPT ![p] = "done"]

(* ------------------------------ actions ------------------------------- *)

\* Time passes.
Tick ==
    /\ now < MaxTime
    /\ now' = now + 1
    /\ UNCHANGED <<files, issued, envVars, enroll, listing, surfVars, keepVars, pc, call, creds, gcExc, result, hist>>

\* Tool t of module m is entered with account_alias = a.
Invoke(p, m, t, a) ==
    /\ pc[p] = "idle"
    /\ call' = [call EXCEPT ![p] = [module |-> m, tool |-> t, alias |-> a]]
    /\ hist' = [hist EXCEPT ![p] =
                  [NoHist EXCEPT !.before = files[TokenPath(m, onRender, a).dir]
                                                 [TokenPath(m, onRender, a).alias]]]
    /\ pc' = [pc EXCEPT ![p] = "gc_exists"]
    /\ UNCHANGED <<files, now, issued, envVars, enroll, listing, surfVars, keepVars, creds, gcExc, result>>

\* The agent invokes a Calendar, Gmail or Tasks tool with an alias.
CallTool(p) ==
    \E m \in AliasModules : \E t \in ModuleTools(m) : \E a \in Aliases : Invoke(p, m, t, a)

\* os.path.exists(token_path)
MutExistsNotChecked(f) == TRUE

PathExists(f) == f.kind # "absent"

\* get_credentials: if not os.path.exists(token_path): raise FileNotFoundError
GcExists(p) ==
    /\ pc[p] = "gc_exists"
    /\ IF ~PathExists(TokenFile(p))
       THEN Fail(p, NotFoundError(call[p].module, call[p].alias, TokenPathDir(p), clientSecrets))
       ELSE /\ pc' = [pc EXCEPT ![p] = "gc_load"]
            /\ UNCHANGED <<gcExc, result>>
    /\ UNCHANGED <<files, now, issued, envVars, enroll, listing, surfVars, keepVars, call, creds, hist>>

\* The branch get_credentials takes on the deserialized credential.
MutBranchRefreshesValid(c, t) ==
    IF c.refresh_token THEN "refresh"
    ELSE IF Valid(c, t) THEN "return"
    ELSE "invalid"

MutBranchIgnoresRefreshToken(c, t) ==
    IF Valid(c, t) THEN "return"
    ELSE IF Expired(c, t) THEN "refresh"
    ELSE "invalid"

CredentialBranch(c, t) ==
    IF Valid(c, t) THEN "return"
    ELSE IF Expired(c, t) /\ c.refresh_token THEN "refresh"
    ELSE "invalid"

\* get_credentials: creds = Credentials.from_authorized_user_file(token_path, SCOPES)
\* and the validity test that follows it.
GcLoad(p) ==
    /\ pc[p] = "gc_load"
    /\ hist' = [hist EXCEPT ![p].loaded = TRUE, ![p].read = TokenFile(p),
                             ![p].loadedAt = now]
    /\ IF TokenFile(p).kind # "json"
       THEN /\ Fail(p, WrapError(call[p].module, call[p].alias, JsonError))
            /\ UNCHANGED creds
       ELSE LET c == FromAuthorizedUserFile(TokenFile(p))
                b == CredentialBranch(c, now)
            IN  /\ creds' = [creds EXCEPT ![p] = c]
                /\ CASE b = "return"  -> /\ pc' = [pc EXCEPT ![p] = "remote"]
                                         /\ UNCHANGED <<gcExc, result>>
                     [] b = "refresh" -> /\ pc' = [pc EXCEPT ![p] = "gc_refresh"]
                                         /\ UNCHANGED <<gcExc, result>>
                     [] b = "invalid" ->
                          Fail(p, WrapError(call[p].module, call[p].alias,
                                            InvalidError(call[p].module, call[p].alias)))
    /\ UNCHANGED <<files, now, issued, envVars, enroll, listing, surfVars, keepVars, call>>

\* What a successful refresh exchange makes of the credential.
MutRefreshKeepsExpiry(c, tk, t, life) == [c EXCEPT !.token = tk]

Refreshed(c, tk, t, life) == [c EXCEPT !.token = tk, !.expiry = t + life]

\* get_credentials: creds.refresh(Request()), accepted by the authorization server.
GcRefreshAccepted(p) ==
    /\ pc[p] = "gc_refresh"
    /\ IssueOpen
    /\ \E life \in 1..MaxLifetime, us \in SubSeconds :
          creds' = [creds EXCEPT ![p] = [Refreshed(creds[p], issued + 1, now, life)
                                           EXCEPT !.micro = us]]
    /\ issued' = issued + 1
    /\ hist' = [hist EXCEPT ![p].refreshes = @ + 1]
    /\ pc' = [pc EXCEPT ![p] = "gc_open"]
    /\ UNCHANGED <<files, now, envVars, enroll, listing, surfVars, keepVars, call, gcExc, result>>

\* get_credentials: creds.refresh(Request()), rejected (RefreshError).
GcRefreshRejected(p) ==
    /\ pc[p] = "gc_refresh"
    /\ hist' = [hist EXCEPT ![p].refreshes = @ + 1]
    /\ Fail(p, WrapError(call[p].module, call[p].alias, RefreshError))
    /\ UNCHANGED <<files, now, issued, envVars, enroll, listing, surfVars, keepVars, call, creds>>

\* get_credentials: open(token_path, "w") truncates the file.
GcOpen(p) ==
    /\ pc[p] = "gc_open"
    /\ files' = [files EXCEPT ![TokenPathOf(p).dir][TokenPathOf(p).alias] = EmptyFile]
    /\ hist' = [hist EXCEPT ![p].opens = @ + 1]
    /\ pc' = [pc EXCEPT ![p] = "gc_write"]
    /\ UNCHANGED <<now, issued, envVars, enroll, listing, surfVars, keepVars, call, creds, gcExc, result>>

\* get_credentials: open(token_path, "w") fails (the file is left as it was).
GcOpenFails(p) ==
    /\ pc[p] = "gc_open"
    /\ Fail(p, WrapError(call[p].module, call[p].alias, OpenError))
    /\ UNCHANGED <<files, now, issued, envVars, enroll, listing, surfVars, keepVars, call, creds, hist>>

\* The file get_credentials leaves after token.write(creds.to_json()).
MutPersistedKeepsOld(old, c) == old

Persisted(old, c) == ToJson(c)

\* get_credentials: token.write(creds.to_json()) and the close of the with block.
GcWrite(p) ==
    /\ pc[p] = "gc_write"
    /\ files' = [files EXCEPT ![TokenPathOf(p).dir][TokenPathOf(p).alias] =
                                  Persisted(hist[p].before, creds[p])]
    /\ hist' = [hist EXCEPT ![p].writes = @ + 1]
    /\ pc' = [pc EXCEPT ![p] = "remote"]
    /\ UNCHANGED <<now, issued, envVars, enroll, listing, surfVars, keepVars, call, creds, gcExc, result>>

\* get_credentials: the write or the close fails; the file stays truncated.
GcWriteFails(p) ==
    /\ pc[p] = "gc_write"
    /\ Fail(p, WrapError(call[p].module, call[p].alias, WriteError))
    /\ UNCHANGED <<files, now, issued, envVars, enroll, listing, surfVars, keepVars, call, creds, hist>>

\* The body of the tool after get_credentials returned: build(...) and the
\* remote operations, which succeed or raise inside the tool's try block.
ToolRemote(p) ==
    /\ pc[p] = "remote"
    /\ hist' = [hist EXCEPT ![p].remote = @ + 1]
    /\ \/ result' = [result EXCEPT ![p] =
                        Returned(SuccessText(call[p].module, call[p].tool, call[p].alias))]
       \/ result' = [result EXCEPT ![p] =
                        ToolCatch(call[p].module, call[p].tool, call[p].alias, HttpError)]
    /\ pc' = [pc EXCEPT ![p] = "done"]
    /\ UNCHANGED <<files, now, issued, envVars, enroll, listing, surfVars, keepVars, call, creds, gcExc>>

\* The tool's result goes back to the agent; the call's locals are dropped.
Return(p) ==
    /\ pc[p] = "done"
    /\ pc' = [pc EXCEPT ![p] = "idle"]
    /\ call' = [call EXCEPT ![p] = NoCall]
    /\ creds' = [creds EXCEPT ![p] = NoCreds]
    /\ gcExc' = [gcExc EXCEPT ![p] = NoExc]
    /\ result' = [result EXCEPT ![p] = NoResult]
    /\ hist' = [hist EXCEPT ![p] = NoHist]
    /\ UNCHANGED <<files, now, issued, envVars, enroll, listing, surfVars, keepVars>>


(* ------------------------ gkeep_tools.py (Keep) ----------------------- *)

GKeepTools == {"list_notes", "get_note", "create_note", "delete_note"}

KeepConfigError ==
    [type |-> "ValueError",
     msg |-> <<"GKEEP_EMAIL and GKEEP_MASTER_KEY environment variables must be set.">>]

KeepLoginError ==
    [type |-> "ConnectionError",
     msg |-> <<"Failed to authenticate with Google Keep. Check your Master Key. Error:",
               "login rejected">>]

KeepSyncError == [type |-> "APIException", msg |-> <<"keep sync failed">>]

\* An exception that no except clause of the tool catches leaves the tool.
Escape(p, e) ==
    /\ gcExc' = [gcExc EXCEPT ![p] = e]
    /\ result' = [result EXCEPT ![p] = Raised(e)]
    /\ pc' = [pc EXCEPT ![p] = "done"]

\* The agent invokes a Keep tool of gkeep_tools.py (no alias).
CallKeepTool(p) ==
    /\ pc[p] = "idle"
    /\ \E t \in GKeepTools :
          call' = [call EXCEPT ![p] = [module |-> "gkeep", tool |-> t, alias |-> "none"]]
    /\ pc' = [pc EXCEPT ![p] = "keep_get"]
    /\ UNCHANGED <<files, now, issued, envVars, enroll, listing, surfVars, keepVars, creds, gcExc, result, hist>>

\* get_keep_instance: the cached session is reused.
KeepGetCached(p) ==
    /\ pc[p] = "keep_get"
    /\ keepInstance # "none"
    /\ pc' = [pc EXCEPT ![p] = "keep_sync"]
    /\ UNCHANGED <<files, now, issued, envVars, enroll, listing, surfVars, keepVars, call, creds, gcExc, result, hist>>

\* get_keep_instance: no session and the environment variables are not set.
KeepGetNoConfig(p) ==
    /\ pc[p] = "keep_get"
    /\ keepInstance = "none"
    /\ ~keepEnv
    /\ Escape(p, KeepConfigError)
    /\ UNCHANGED <<files, now, issued, envVars, enroll, listing, surfVars, keepVars, call, creds, hist>>

\* get_keep_instance: keep.authenticate(email, master_key) succeeds.
KeepAuthenticate(p) ==
    /\ pc[p] = "keep_get"
    /\ keepInstance = "none"
    /\ keepEnv
    /\ keepInstance' = "session"
    /\ keepSessionOk' = TRUE
    /\ pc' = [pc EXCEPT ![p] = "keep_sync"]
    /\ UNCHANGED <<files, now, issued, envVars, enroll, listing, surfVars, keepEnv, legacyToken, call, creds, gcExc,
                   result, hist>>

\* get_keep_instance: keep.authenticate raises LoginException.
KeepAuthRejected(p) ==
    /\ pc[p] = "keep_get"
    /\ keepInstance = "none"
    /\ keepEnv
    /\ Escape(p, KeepLoginError)
    /\ UNCHANGED <<files, now, issued, envVars, enroll, listing, surfVars, keepVars, call, creds, hist>>

\* get_keep_instance: _keep_instance.sync()
KeepSync(p) ==
    /\ pc[p] = "keep_sync"
    /\ keepSessionOk
    /\ pc' = [pc EXCEPT ![p] = "keep_body"]
    /\ UNCHANGED <<files, now, issued, envVars, enroll, listing, surfVars, keepVars, call, creds, gcExc, result, hist>>

\* get_keep_instance: _keep_instance.sync() raises (the session was rejected, or
\* the network failed); _keep_instance stays as it is.
KeepSyncFails(p) ==
    /\ pc[p] = "keep_sync"
    /\ Escape(p, KeepSyncError)
    /\ UNCHANGED <<files, now, issued, envVars, enroll, listing, surfVars, keepVars, call, creds, hist>>

\* The body of the Keep tool after get_keep_instance returned.
KeepBody(p) ==
    /\ pc[p] = "keep_body"
    /\ hist' = [hist EXCEPT ![p].remote = @ + 1]
    /\ \/ /\ result' = [result EXCEPT ![p] = Returned(<<call[p].tool, "succeeded">>)]
          /\ pc' = [pc EXCEPT ![p] = "done"]
          /\ UNCHANGED gcExc
       \/ /\ call[p].tool \in {"create_note", "delete_note"}
          /\ Escape(p, KeepSyncError)
    /\ UNCHANGED <<files, now, issued, envVars, enroll, listing, surfVars, keepVars, call, creds>>

\* Google revokes the session the process has cached.
KeepRevoke ==
    /\ keepInstance = "session"
    /\ keepSessionOk
    /\ keepSessionOk' = FALSE
    /\ UNCHANGED <<files, now, issued, envVars, enroll, listing, surfVars, keepEnv, keepInstance, legacyToken,
                   pc, call, creds, gcExc, result, hist>>

(* ------------------ keep_tools.py (single-account Keep) --------------- *)

LegacyKeepTools == {"list_notes", "get_note", "create_note", "delete_note", "share_note"}

ClientSecretsError ==
    [type |-> "FileNotFoundError", msg |-> <<"No such file or directory:", "credentials.json">>]

ConsentError == [type |-> "Exception", msg |-> <<"the consent flow did not complete">>]

\* The agent invokes a Keep tool of keep_tools.py.
CallLegacyKeepTool(p) ==
    /\ pc[p] = "idle"
    /\ \E t \in LegacyKeepTools :
          call' = [call EXCEPT ![p] = [module |-> "keep", tool |-> t, alias |-> "none"]]
    /\ hist' = [hist EXCEPT ![p] = [NoHist EXCEPT !.before = legacyToken]]
    /\ pc' = [pc EXCEPT ![p] = "lk_load"]
    /\ UNCHANGED <<files, now, issued, envVars, enroll, listing, surfVars, keepVars, creds, gcExc, result>>

\* keep_tools.get_credentials: load token.json if it exists, then choose the
\* branch; it runs before the tool's try block.
LkLoad(p) ==
    /\ pc[p] = "lk_load"
    /\ hist' = [hist EXCEPT ![p].loaded = (legacyToken.kind # "absent"),
                             ![p].read = legacyToken, ![p].loadedAt = now]
    /\ CASE legacyToken.kind = "absent" ->
              /\ pc' = [pc EXCEPT ![p] = "lk_flow"]
              /\ UNCHANGED <<creds, gcExc, result>>
         [] legacyToken.kind = "corrupt" ->
              /\ Escape(p, JsonError)
              /\ UNCHANGED creds
         [] legacyToken.kind = "json" ->
              LET c == FromAuthorizedUserFile(legacyToken)
                  b == CredentialBranch(c, now)
              IN  /\ creds' = [creds EXCEPT ![p] = c]
                  /\ pc' = [pc EXCEPT ![p] =
                              CASE b = "return"  -> "lk_remote"
                                [] b = "refresh" -> "lk_refresh"
                                [] b = "invalid" -> "lk_flow"]
                  /\ UNCHANGED <<gcExc, result>>
    /\ UNCHANGED <<files, now, issued, envVars, enroll, listing, surfVars, keepVars, call>>

\* keep_tools.get_credentials: creds.refresh(Request()) accepted.
LkRefreshAccepted(p) ==
    /\ pc[p] = "lk_refresh"
    /\ IssueOpen
    /\ \E life \in 1..MaxLifetime, us \in SubSeconds :
          creds' = [creds EXCEPT ![p] = [Refreshed(creds[p], issued + 1, now, life)
                                           EXCEPT !.micro = us]]
    /\ issued' = issued + 1
    /\ hist' = [hist EXCEPT ![p].refreshes = @ + 1]
    /\ pc' = [pc EXCEPT ![p] = "lk_open"]
    /\ UNCHANGED <<files, now, envVars, enroll, listing, surfVars, keepVars, call, gcExc, result>>

\* keep_tools.get_credentials: creds.refresh(Request()) rejected.
LkRefreshRejected(p) ==
    /\ pc[p] = "lk_refresh"
    /\ hist' = [hist EXCEPT ![p].refreshes = @ + 1]
    /\ Escape(p, RefreshError)
    /\ UNCHANGED <<files, now, issued, envVars, enroll, listing, surfVars, keepVars, call, creds>>

\* keep_tools.get_credentials: InstalledAppFlow.from_client_secrets_file(
\* "credentials.json", SCOPES) and flow.run_local_server(port=0).
LkFlow(p) ==
    /\ pc[p] = "lk_flow"
    /\ IF ~clientSecrets
       THEN /\ Escape(p, ClientSecretsError)
            /\ UNCHANGED <<creds, issued>>
       ELSE \/ /\ IssueOpen
               /\ \E life \in 1..MaxLifetime, us \in SubSeconds :
                     creds' = [creds EXCEPT ![p] =
                                 [present |-> TRUE, token |-> issued + 1,
                                  refresh_token |-> TRUE, expiry |-> now + life,
                                  micro |-> us]]
               /\ issued' = issued + 1
               /\ pc' = [pc EXCEPT ![p] = "lk_open"]
               /\ UNCHANGED <<gcExc, result>>
            \/ /\ Escape(p, ConsentError)
               /\ UNCHANGED <<creds, issued>>
    /\ UNCHANGED <<files, now, envVars, enroll, listing, surfVars, keepVars, call, hist>>

\* keep_tools.get_credentials: open("token.json", "w")
LkOpen(p) ==
    /\ pc[p] = "lk_open"
    /\ \/ /\ legacyToken' = EmptyFile
          /\ hist' = [hist EXCEPT ![p].opens = @ + 1]
          /\ pc' = [pc EXCEPT ![p] = "lk_write"]
          /\ UNCHANGED <<gcExc, result>>
       \/ /\ Escape(p, OpenError)
          /\ UNCHANGED <<legacyToken, hist>>
    /\ UNCHANGED <<files, now, issued, envVars, enroll, listing, surfVars, keepEnv, keepInstance, keepSessionOk,
                   call, creds>>

\* keep_tools.get_credentials: token.write(creds.to_json())
LkWrite(p) ==
    /\ pc[p] = "lk_write"
    /\ \/ /\ legacyToken' = ToJson(creds[p])
          /\ hist' = [hist EXCEPT ![p].writes = @ + 1]
          /\ pc' = [pc EXCEPT ![p] = "lk_remote"]
          /\ UNCHANGED <<gcExc, result>>
       \/ /\ Escape(p, WriteError)
          /\ UNCHANGED <<legacyToken, hist>>
    /\ UNCHANGED <<files, now, issued, envVars, enroll, listing, surfVars, keepEnv, keepInstance, keepSessionOk,
                   call, creds>>

\* The try block of the keep_tools.py tool: except Exception: "An error occurred: e".
LkRemote(p) ==
    /\ pc[p] = "lk_remote"
    /\ hist' = [hist EXCEPT ![p].remote = @ + 1]
    /\ \/ result' = [result EXCEPT ![p] = Returned(<<call[p].tool, "succeeded">>)]
       \/ result' = [result EXCEPT ![p] = Returned(<<"An error occurred:">> \o HttpError.msg)]
    /\ pc' = [pc EXCEPT ![p] = "done"]
    /\ UNCHANGED <<files, now, issued, envVars, enroll, listing, surfVars, keepVars, call, creds, gcExc>>

KeepStep(p) ==
    \/ CallKeepTool(p)
    \/ KeepGetCached(p)
    \/ KeepGetNoConfig(p)
    \/ KeepAuthenticate(p)
    \/ KeepAuthRejected(p)
    \/ KeepSync(p)
    \/ KeepSyncFails(p)
    \/ KeepBody(p)
    \/ CallLegacyKeepTool(p)
    \/ LkLoad(p)
    \/ LkRefreshAccepted(p)
    \/ LkRefreshRejected(p)
    \/ LkFlow(p)
    \/ LkOpen(p)
    \/ LkWrite(p)
    \/ LkRemote(p)
    \/ Return(p)

KeepInit ==
    /\ onRender = FALSE
    /\ clientSecrets \in BOOLEAN
    /\ files = [d \in Dirs |-> [a \in Aliases |-> AbsentFile]]
    /\ now = 0
    /\ issued = EnrolledToken
    /\ ProcsIdle
    /\ keepEnv \in BOOLEAN
    /\ keepInstance = "none"
    /\ keepSessionOk = FALSE
    /\ legacyToken \in InitFiles
    /\ SurfaceQuiet
    /\ EnrollQuiet
    /\ ListQuiet

KeepNext == Tick \/ KeepRevoke \/ \E p \in SeqProcs : KeepStep(p)

\* The Keep tools of both modules, called one at a time.
KeepSpec == KeepInit /\ [][KeepNext]_vars


(* ------------------------- server.py (webhook) ------------------------ *)

\* Message bodies and typed lines.
Bodies == {"hi", "book a meeting"}

Lines == Bodies \cup {"exit", "Exit", "EXIT"}

\* The text of the except clause of webhook().
Apology == <<"Sorry, I encountered an error. Please try that again.">>

\* result["output"] of a turn the agent completed.
AgentOutput(body) == <<"Jarvis answers", body>>

\* result["output"] of a turn the executor stopped at its iteration limit.
StoppedOutput == <<"Agent stopped due to iteration limit or time limit.">>

\* No max_iterations argument is passed to AgentExecutor.
NotConfigured == 0

\* agent.py: AgentExecutor(..., max_iterations=10)
LoopMaxIterations == 10

\* AgentExecutor's own max_iterations, used when the caller passes none.
ExecutorDefaultMaxIterations == 15

\* The max_iterations argument each surface passes to AgentExecutor.
ConfiguredMaxIterations(surface) ==
    IF surface = "loop" THEN LoopMaxIterations ELSE NotConfigured

\* The limit the executor of each surface runs with.
MutMaxIterationsSwapped(surface) ==
    IF surface = "loop" THEN ExecutorDefaultMaxIterations ELSE LoopMaxIterations

MaxIterations(surface) ==
    IF ConfiguredMaxIterations(surface) = NotConfigured
    THEN ExecutorDefaultMaxIterations
    ELSE ConfiguredMaxIterations(surface)

\* What the executor's memory holds after a completed turn (save_context).
SaveContext(mem, body) == Append(mem, body)

\* get_user_memory: db.get(session_id, ConversationBufferMemory(...))
GetUserMemory(store, s) == IF store[s].stored THEN store[s].turns ELSE <<>>

\* save_user_memory: db[session_id] = memory
MutSaveUnderOneKey(store, s, mem) == [t \in Senders |-> [stored |-> TRUE, turns |-> mem]]

SaveUserMemory(store, s, mem) == [store EXCEPT ![s] = [stored |-> TRUE, turns |-> mem]]

\* Twilio posts a message: request.values Body and From.
WhReceive(w) ==
    /\ wpc[w] = "idle"
    /\ \E s \in Senders : \E b \in Bodies :
          /\ Len(db[s].turns) < MaxTurns
          /\ req' = [req EXCEPT ![w] = [sender |-> s, body |-> b]]
    /\ wpc' = [wpc EXCEPT ![w] = "load"]
    /\ UNCHANGED <<db, shelf, boots, wmem, wrounds, whist, agentResponse, wreply>>
    /\ UNCHANGED <<loopVars, otherVars>>

\* webhook: memory = get_user_memory(sender_id), before the try block.
WhLoad(w) ==
    /\ wpc[w] = "load"
    /\ wmem' = [wmem EXCEPT ![w] = GetUserMemory(db, req[w].sender)]
    /\ whist' = [whist EXCEPT ![w].loads = @ + 1]
    /\ wpc' = [wpc EXCEPT ![w] = "turn"]
    /\ UNCHANGED <<db, shelf, boots, req, wrounds, agentResponse, wreply>>
    /\ UNCHANGED <<loopVars, otherVars>>

\* webhook: shelve.open or db.get raises; nothing in webhook() catches it and
\* Flask answers the request with an error page.
WhLoadFails(w) ==
    /\ wpc[w] = "load"
    /\ wreply' = [wreply EXCEPT ![w] = [kind |-> "http500", text |-> <<>>]]
    /\ wpc' = [wpc EXCEPT ![w] = "finished"]
    /\ UNCHANGED <<db, shelf, boots, req, wmem, wrounds, whist, agentResponse>>
    /\ UNCHANGED <<loopVars, otherVars>>

\* agent_executor.invoke: the model asks for tools and the executor runs them
\* (one iteration).
WhRound(w) ==
    /\ wpc[w] = "turn"
    /\ wrounds[w] < MaxIterations("webhook")
    /\ wrounds' = [wrounds EXCEPT ![w] = @ + 1]
    /\ UNCHANGED <<db, shelf, boots, wpc, req, wmem, whist, agentResponse, wreply>>
    /\ UNCHANGED <<loopVars, otherVars>>

\* webhook: the try block; the model gives its final answer and
\* agent_executor.invoke returns.
WhTurn(w) ==
    /\ wpc[w] = "turn"
    /\ wrounds[w] < MaxIterations("webhook")
    /\ wmem' = [wmem EXCEPT ![w] = SaveContext(wmem[w], req[w].body)]
    /\ agentResponse' = [agentResponse EXCEPT ![w] = AgentOutput(req[w].body)]
    /\ whist' = [whist EXCEPT ![w].turns = @ + 1]
    /\ wpc' = [wpc EXCEPT ![w] = "save"]
    /\ UNCHANGED <<db, shelf, boots, req, wrounds, wreply>>
    /\ UNCHANGED <<loopVars, otherVars>>

\* webhook: the try block; the executor has used up its iterations and
\* agent_executor.invoke returns the stop message.
WhTurnStopped(w) ==
    /\ wpc[w] = "turn"
    /\ wrounds[w] >= MaxIterations("webhook")
    /\ wmem' = [wmem EXCEPT ![w] = SaveContext(wmem[w], req[w].body)]
    /\ agentResponse' = [agentResponse EXCEPT ![w] = StoppedOutput]
    /\ whist' = [whist EXCEPT ![w].turns = @ + 1]
    /\ wpc' = [wpc EXCEPT ![w] = "save"]
    /\ UNCHANGED <<db, shelf, boots, req, wrounds, wreply>>
    /\ UNCHANGED <<loopVars, otherVars>>

\* webhook: the try block raises; except Exception sets the apology.
WhTurnRaises(w) ==
    /\ wpc[w] = "turn"
    /\ agentResponse' = [agentResponse EXCEPT ![w] = Apology]
    /\ whist' = [whist EXCEPT ![w].turns = @ + 1]
    /\ wpc' = [wpc EXCEPT ![w] = "save"]
    /\ UNCHANGED <<db, shelf, boots, req, wmem, wrounds, wreply>>
    /\ UNCHANGED <<loopVars, otherVars>>

\* save_user_memory: shelve.open("conversation_db", flag='c'); the shelf sees
\* the store as it is now.
WhSaveOpen(w) ==
    /\ wpc[w] = "save"
    /\ shelf' = [shelf EXCEPT ![w] = db]
    /\ wpc' = [wpc EXCEPT ![w] = "commit"]
    /\ UNCHANGED <<db, boots, req, wmem, wrounds, whist, agentResponse, wreply>>
    /\ UNCHANGED <<loopVars, otherVars>>

\* save_user_memory: db[session_id] = memory and the close of the with block.
\* The key is written through to the store, or the shelf's view of the store
\* replaces it, depending on the dbm backend behind shelve.
WhSave(w) ==
    /\ wpc[w] = "commit"
    /\ \/ db' = SaveUserMemory(db, req[w].sender, wmem[w])
       \/ db' = SaveUserMemory(shelf[w], req[w].sender, wmem[w])
    /\ shelf' = [shelf EXCEPT ![w] = NoShelf]
    /\ whist' = [whist EXCEPT ![w].saves = @ + 1]
    /\ wpc' = [wpc EXCEPT ![w] = "respond"]
    /\ UNCHANGED <<boots, req, wmem, wrounds, agentResponse, wreply>>
    /\ UNCHANGED <<loopVars, otherVars>>

\* webhook: shelve.open or the store raises; nothing in webhook() catches it.
WhSaveFails(w) ==
    /\ wpc[w] \in {"save", "commit"}
    /\ shelf' = [shelf EXCEPT ![w] = NoShelf]
    /\ wreply' = [wreply EXCEPT ![w] = [kind |-> "http500", text |-> <<>>]]
    /\ wpc' = [wpc EXCEPT ![w] = "finished"]
    /\ UNCHANGED <<db, boots, req, wmem, wrounds, whist, agentResponse>>
    /\ UNCHANGED <<loopVars, otherVars>>

\* webhook: resp.message(agent_response); return str(resp)
WhRespond(w) ==
    /\ wpc[w] = "respond"
    /\ wreply' = [wreply EXCEPT ![w] = [kind |-> "envelope", text |-> agentResponse[w]]]
    /\ whist' = [whist EXCEPT ![w].replies = @ + 1]
    /\ wpc' = [wpc EXCEPT ![w] = "finished"]
    /\ UNCHANGED <<db, shelf, boots, req, wmem, wrounds, agentResponse>>
    /\ UNCHANGED <<loopVars, otherVars>>

\* The HTTP exchange is over; the handler's locals are dropped.
WhDone(w) ==
    /\ wpc[w] = "finished"
    /\ wpc' = [wpc EXCEPT ![w] = "idle"]
    /\ req' = [req EXCEPT ![w] = NoRequest]
    /\ wmem' = [wmem EXCEPT ![w] = <<>>]
    /\ wrounds' = [wrounds EXCEPT ![w] = 0]
    /\ whist' = [whist EXCEPT ![w] = NoWhist]
    /\ agentResponse' = [agentResponse EXCEPT ![w] = <<>>]
    /\ wreply' = [wreply EXCEPT ![w] = NoReply]
    /\ UNCHANGED <<db, shelf, boots>>
    /\ UNCHANGED <<loopVars, otherVars>>

\* The server process is stopped and started again: every handler's locals are
\* gone, the shelve file stays.
WhRestart ==
    /\ boots < MaxRestarts
    /\ boots' = boots + 1
    /\ wpc' = [w \in Procs |-> "idle"]
    /\ req' = [w \in Procs |-> NoRequest]
    /\ wmem' = [w \in Procs |-> <<>>]
    /\ wrounds' = [w \in Procs |-> 0]
    /\ whist' = [w \in Procs |-> NoWhist]
    /\ agentResponse' = [w \in Procs |-> <<>>]
    /\ wreply' = [w \in Procs |-> NoReply]
    /\ shelf' = [w \in Procs |-> NoShelf]
    /\ UNCHANGED db
    /\ UNCHANGED <<loopVars, otherVars>>

(* ---------------------- agent.py (interactive loop) ------------------- *)

\* str.lower() on the lines that can be typed.
Lower(line) ==
    IF line \in {"exit", "Exit", "EXIT"} THEN "exit"
    ELSE IF line \in {"yes", "Yes", "YES"} THEN "yes"
    ELSE IF line = "Work" THEN "work"
    ELSE line

\* The loop's except clause prints the exception.
LoopErrorText == <<"An error occurred:", "agent failure">>

\* user_input = input("\n> "); if user_input.lower() == 'exit': break
\* After the break the program ends, and its memory object with it.
LoopInput ==
    /\ lpc = "input"
    /\ \E line \in Lines :
          /\ lline' = line
          /\ IF Lower(line) = "exit"
             THEN /\ lpc' = "exited"
                  /\ lout' = <<"Goodbye!">>
                  /\ lmem' = <<>>
             ELSE /\ Len(lmem) < MaxTurns
                  /\ lpc' = "turn"
                  /\ lout' = lout
                  /\ lmem' = lmem
    /\ lrounds' = 0
    /\ UNCHANGED <<hookVars, otherVars>>

\* input("\n> ") raises EOFError when standard input has ended; the call is
\* outside the try block, so the exception ends the program with a traceback.
LoopInputEnds ==
    /\ lpc = "input"
    /\ lpc' = "ended"
    /\ lout' = <<"EOFError">>
    /\ lmem' = <<>>
    /\ lrounds' = 0
    /\ UNCHANGED lline
    /\ UNCHANGED <<hookVars, otherVars>>

\* agent_executor.invoke: the model asks for tools and the executor runs them
\* (one iteration).
LoopRound ==
    /\ lpc = "turn"
    /\ lrounds < MaxIterations("loop")
    /\ lrounds' = lrounds + 1
    /\ UNCHANGED <<lpc, lline, lmem, lout>>
    /\ UNCHANGED <<hookVars, otherVars>>

\* The loop's try block; agent_executor.invoke returns and the reply is printed.
LoopTurn ==
    /\ lpc = "turn"
    /\ lrounds < MaxIterations("loop")
    /\ lmem' = SaveContext(lmem, lline)
    /\ lout' = <<"Jarvis:">> \o AgentOutput(lline)
    /\ lpc' = "input"
    /\ UNCHANGED <<lline, lrounds>>
    /\ UNCHANGED <<hookVars, otherVars>>

\* The loop's try block; the executor has used up its iterations and the stop
\* message is printed.
LoopTurnStopped ==
    /\ lpc = "turn"
    /\ lrounds >= MaxIterations("loop")
    /\ lmem' = SaveContext(lmem, lline)
    /\ lout' = <<"Jarvis:">> \o StoppedOutput
    /\ lpc' = "input"
    /\ UNCHANGED <<lline, lrounds>>
    /\ UNCHANGED <<hookVars, otherVars>>

\* The loop's try block raises; except Exception prints it and the loop goes on.
LoopTurnRaises ==
    /\ lpc = "turn"
    /\ lout' = LoopErrorText
    /\ lpc' = "input"
    /\ UNCHANGED <<lline, lmem, lrounds>>
    /\ UNCHANGED <<hookVars, otherVars>>

SurfaceInit ==
    /\ onRender = FALSE
    /\ clientSecrets = TRUE
    /\ files = [d \in Dirs |-> [a \in Aliases |-> AbsentFile]]
    /\ now = 0
    /\ issued = EnrolledToken
    /\ ProcsIdle
    /\ KeepQuiet
    /\ SurfaceQuiet
    /\ EnrollQuiet
    /\ ListQuiet

LoopStep ==
    \/ LoopInput
    \/ LoopInputEnds
    \/ LoopRound
    \/ LoopTurn
    \/ LoopTurnStopped
    \/ LoopTurnRaises

\* agent.py and server.py are two programs that share no state: the
\* interactive session runs to its end, then the server handles requests.
\* The interactive session has ended.
SessionOver == lpc = "exited"

ServerReceive(w) == SessionOver /\ WhReceive(w)

ServerRestart == SessionOver /\ WhRestart

ServerStep(w) ==
    \/ ServerReceive(w)
    \/ WhLoad(w)
    \/ WhLoadFails(w)
    \/ WhRound(w)
    \/ WhTurn(w)
    \/ WhTurnStopped(w)
    \/ WhTurnRaises(w)
    \/ WhSaveOpen(w)
    \/ WhSave(w)
    \/ WhSaveFails(w)
    \/ WhRespond(w)
    \/ WhDone(w)

SurfaceNext ==
    \/ LoopStep
    \/ \E w \in SeqProcs : ServerStep(w)
    \/ ServerRestart

\* The two delivery surfaces, the webhook handling one request at a time.
SurfaceSpec == SurfaceInit /\ [][SurfaceNext]_vars

\* One request handled on one of the server's threads, its turn answered
\* without tool calls.
HookRaceStep(w) ==
    \/ WhReceive(w)
    \/ WhLoad(w)
    \/ WhLoadFails(w)
    \/ WhTurn(w)
    \/ WhTurnRaises(w)
    \/ WhSaveOpen(w)
    \/ WhSave(w)
    \/ WhSaveFails(w)
    \/ WhRespond(w)

\* The handling of one request, up to its reply.
TurnStep(w) ==
    \/ ServerReceive(w)
    \/ WhLoad(w)
    \/ WhLoadFails(w)
    \/ WhRound(w)
    \/ WhTurn(w)
    \/ WhTurnStopped(w)
    \/ WhTurnRaises(w)
    \/ WhSaveOpen(w)
    \/ WhSave(w)
    \/ WhSaveFails(w)
    \/ WhRespond(w)

TurnNext ==
    \/ LoopStep
    \/ \E w \in SeqProcs : TurnStep(w)

\* The turns of an interactive session and the turn of one webhook request; a
\* program that can take a step eventually takes one.
TurnSpec ==
    /\ SurfaceInit
    /\ [][TurnNext]_vars
    /\ WF_vars(LoopStep)
    /\ \A w \in SeqProcs : WF_vars(TurnStep(w))

\* Webhook requests handled on concurrent threads.
HookRaceNext == \E w \in Procs : HookRaceStep(w)

HookRaceSpec == SurfaceInit /\ [][HookRaceNext]_vars

(* --------------------- add_account.py (enrollment) -------------------- *)

\* SCOPES of add_account.py, without the https://www.googleapis.com/auth/ prefix.
EnrollmentScopes == {"calendar", "gmail.readonly", "gmail.compose", "tasks"}

\* SCOPES of each tool module.
Scopes(m) ==
    CASE m = "calendar" -> {"calendar", "gmail.readonly", "gmail.compose", "tasks"}
      [] m = "gmail"    -> {"calendar", "gmail.readonly", "gmail.compose", "gmail.modify",
                            "tasks"}
      [] m = "tasks"    -> {"calendar", "gmail.readonly", "gmail.compose", "gmail.modify",
                            "tasks"}
      [] m = "keep"     -> {"calendar", "gmail.readonly", "gmail.compose", "tasks",
                            "keep.readonly", "keep"}

\* What can be typed at the alias prompt and at the overwrite prompt.
AliasInputs == {"work", " Work ", "personal", "", "  "}

Answers == {"yes", " YES ", "y", "no", ""}

\* str.strip() on the lines that can be typed.
Strip(line) ==
    CASE line = " YES "  -> "YES"
      [] line = " Work " -> "Work"
      [] line = "  "     -> ""
      [] OTHER           -> line

\* overwrite = input(...).strip().lower(); the run goes on only if it is 'yes'.
MutConfirmedUnlessNo(answer) == Lower(Strip(answer)) # "no"

Confirmed(answer) == Lower(Strip(answer)) = "yes"

EnrollFile == files["credentials/"][enroll.alias]

\* main: credentials.json must exist.
EnrollStart ==
    /\ enroll.pc = "idle"
    /\ enroll' = [enroll EXCEPT !.pc = IF clientSecrets THEN "alias" ELSE "exited"]
    /\ UNCHANGED <<files, now, issued, envVars, listing, surfVars, keepVars, pc, call, creds,
                   gcExc, result, hist>>

\* main: account_alias = input(...).strip().lower().replace(" ", "_"); an empty
\* alias ends the run; an existing token file leads to the overwrite prompt.
EnrollAlias ==
    /\ enroll.pc = "alias"
    /\ \E raw \in AliasInputs :
          LET a == Lower(Strip(raw))
          IN  IF a = ""
              THEN enroll' = [enroll EXCEPT !.pc = "exited"]
              ELSE enroll' = [enroll EXCEPT
                                !.alias = a,
                                !.before = files["credentials/"][a],
                                !.pc = IF PathExists(files["credentials/"][a])
                                       THEN "confirm" ELSE "flow"]
    /\ UNCHANGED <<files, now, issued, envVars, listing, surfVars, keepVars, pc, call, creds,
                   gcExc, result, hist>>

\* main: the overwrite prompt.
EnrollConfirm ==
    /\ enroll.pc = "confirm"
    /\ \E answer \in Answers :
          enroll' = [enroll EXCEPT !.answer = answer,
                                   !.pc = IF Confirmed(answer) THEN "flow" ELSE "exited"]
    /\ UNCHANGED <<files, now, issued, envVars, listing, surfVars, keepVars, pc, call, creds,
                   gcExc, result, hist>>

\* main: InstalledAppFlow.from_client_secrets_file and flow.run_local_server;
\* the user consents, or the flow raises and the run ends.
EnrollFlow ==
    /\ enroll.pc = "flow"
    /\ \/ /\ issued < EnrolledToken + MaxIssued
          /\ \E life \in 1..MaxLifetime, us \in SubSeconds :
                enroll' = [enroll EXCEPT
                             !.creds = [present |-> TRUE, token |-> issued + 1,
                                        refresh_token |-> TRUE, expiry |-> now + life,
                                        micro |-> us],
                             !.flows = @ + 1,
                             !.pc = "open"]
          /\ issued' = issued + 1
       \/ /\ enroll' = [enroll EXCEPT !.flows = @ + 1, !.pc = "exited"]
          /\ UNCHANGED issued
    /\ UNCHANGED <<files, now, envVars, listing, surfVars, keepVars, pc, call, creds,
                   gcExc, result, hist>>

\* main: open(token_path, "w") truncates the file, or raises.
EnrollOpen ==
    /\ enroll.pc = "open"
    /\ \/ /\ files' = [files EXCEPT !["credentials/"][enroll.alias] = EmptyFile]
          /\ enroll' = [enroll EXCEPT !.opens = @ + 1, !.pc = "write"]
       \/ /\ enroll' = [enroll EXCEPT !.pc = "exited"]
          /\ UNCHANGED files
    /\ UNCHANGED <<now, issued, envVars, listing, surfVars, keepVars, pc, call, creds,
                   gcExc, result, hist>>

\* main: token.write(creds.to_json()), or the write raises.
EnrollWrite ==
    /\ enroll.pc = "write"
    /\ \/ /\ files' = [files EXCEPT !["credentials/"][enroll.alias] = ToJson(enroll.creds)]
          /\ enroll' = [enroll EXCEPT !.writes = @ + 1, !.pc = "exited"]
       \/ /\ enroll' = [enroll EXCEPT !.pc = "exited"]
          /\ UNCHANGED files
    /\ UNCHANGED <<now, issued, envVars, listing, surfVars, keepVars, pc, call, creds,
                   gcExc, result, hist>>

\* main returns and the program ends.
EnrollExit ==
    /\ enroll.pc = "exited"
    /\ enroll' = NoEnroll
    /\ UNCHANGED <<files, now, issued, envVars, listing, surfVars, keepVars, pc, call, creds,
                   gcExc, result, hist>>

EnrollInit ==
    /\ onRender = FALSE
    /\ clientSecrets \in BOOLEAN
    /\ files \in [Dirs -> [Aliases -> InitFiles]]
    /\ \A a \in Aliases : files[""][a] = AbsentFile
    /\ now = 0
    /\ issued = EnrolledToken
    /\ ProcsIdle
    /\ KeepQuiet
    /\ SurfaceQuiet
    /\ EnrollQuiet
    /\ ListQuiet

EnrollNext ==
    \/ Tick
    \/ EnrollStart
    \/ EnrollAlias
    \/ EnrollConfirm
    \/ EnrollFlow
    \/ EnrollOpen
    \/ EnrollWrite
    \/ EnrollExit

\* Runs of the enrollment CLI on a machine that holds the token files.
EnrollSpec == EnrollInit /\ [][EnrollNext]_vars

(* -------------------------- listing operations ------------------------ *)

\* A line of a tool's output that holds no 'ID: <value>' token.
NoId == 0

\* An item without a 'parent' key.
NoParent == 0

ListingTools ==
    {"search_calendar_events", "search_gmail", "list_task_lists", "get_tasks", "list_notes"}

\* The pages the remote service returns: "items" of at most MaxItems entities
\* with distinct ids. parent: the 'parent' key of a task (MaxItems + 1 is a task
\* that is not in the page); summary: the event has a 'summary' key.
Pages ==
    {page \in UNION {[1..n -> [id : 1..MaxItems, parent : 0..(MaxItems + 1),
                               summary : BOOLEAN]] : n \in 0..MaxItems} :
        \A i, j \in DOMAIN page :
            /\ page[i].parent # page[i].id
            /\ page[i].id = page[j].id => i = j}

\* "\n".join(output), as the lines of the text.
RECURSIVE JoinLines(_)
JoinLines(output) ==
    IF output = <<>> THEN <<>> ELSE Head(output) \o JoinLines(Tail(output))

\* One line per event; event['summary'] raises KeyError when an event has no
\* title, and the except clause returns the error text.
search_calendar_events(events) ==
    IF events = <<>> THEN <<[kind |-> "none", id |-> NoId]>>
    ELSE IF \E i \in DOMAIN events : ~events[i].summary
         THEN <<[kind |-> "error", id |-> NoId]>>
         ELSE [i \in DOMAIN events |-> [kind |-> "event", id |-> events[i].id]]

\* Five lines per message: From, Subject, Snippet, ID and the '---' separator.
search_gmail(messages) ==
    IF messages = <<>> THEN <<[kind |-> "none", id |-> NoId]>>
    ELSE JoinLines([i \in DOMAIN messages |->
                      <<[kind |-> "from", id |-> NoId],
                        [kind |-> "subject", id |-> NoId],
                        [kind |-> "snippet", id |-> NoId],
                        [kind |-> "id", id |-> messages[i].id],
                        [kind |-> "separator", id |-> NoId]>>])

list_task_lists(items) ==
    IF items = <<>> THEN <<[kind |-> "none", id |-> NoId]>>
    ELSE [i \in DOMAIN items |-> [kind |-> "list", id |-> items[i].id]]

\* tasks_with_subtasks holds the items without a parent; an item with a parent
\* is appended to its parent's subtasks only when the parent is in it. Each task
\* is followed by its subtasks.
get_tasks(items) ==
    LET tasks == SelectSeq(items, LAMBDA item : item.parent = NoParent)
        subtasks(task) == SelectSeq(items, LAMBDA item : item.parent = task.id)
    IN  IF items = <<>> THEN <<[kind |-> "none", id |-> NoId]>>
        ELSE JoinLines([i \in DOMAIN tasks |->
                          <<[kind |-> "task", id |-> tasks[i].id]>>
                          \o [j \in DOMAIN subtasks(tasks[i]) |->
                                [kind |-> "subtask", id |-> subtasks(tasks[i])[j].id]]])

\* gkeep_tools.py and keep_tools.py: one line per note.
list_notes(notes) ==
    IF notes = <<>> THEN <<[kind |-> "none", id |-> NoId]>>
    ELSE [i \in DOMAIN notes |-> [kind |-> "note", id |-> notes[i].id]]

\* The tool's request to the service returns a page.
ListExecute ==
    /\ listing.pc \in {"idle", "done"}
    /\ \E tool \in ListingTools, page \in Pages :
          listing' = [pc |-> "fetched", tool |-> tool, items |-> page, out |-> <<>>]
    /\ UNCHANGED <<files, now, issued, envVars, enroll, surfVars, keepVars, pc, call, creds,
                   gcExc, result, hist>>

\* The tool renders the page and returns the text.
ListReturn ==
    /\ listing.pc = "fetched"
    /\ listing' =
          [listing EXCEPT
             !.pc = "done",
             !.out = CASE listing.tool = "search_calendar_events" ->
                            search_calendar_events(listing.items)
                       [] listing.tool = "search_gmail" -> search_gmail(listing.items)
                       [] listing.tool = "list_task_lists" -> list_task_lists(listing.items)
                       [] listing.tool = "get_tasks" -> get_tasks(listing.items)
                       [] listing.tool = "list_notes" -> list_notes(listing.items)]
    /\ UNCHANGED <<files, now, issued, envVars, enroll, surfVars, keepVars, pc, call, creds,
                   gcExc, result, hist>>

ListNext == ListExecute \/ ListReturn

\* Listing tools called with valid credentials, one call after the other.
ListSpec == SurfaceInit /\ [][ListNext]_vars

Step(p) ==
    \/ CallTool(p)
    \/ GcExists(p)
    \/ GcLoad(p)
    \/ GcRefreshAccepted(p)
    \/ GcRefreshRejected(p)
    \/ GcOpen(p)
    \/ GcOpenFails(p)
    \/ GcWrite(p)
    \/ GcWriteFails(p)
    \/ ToolRemote(p)
    \/ Return(p)

Next == Tick \/ \E p \in SeqProcs : Step(p)

Spec == Init /\ [][Next]_vars

(* ----------------------- concurrent tool calls ------------------------ *)

\* The record add_account.py wrote for an alias.
EnrolledFile ==
    [kind |-> "json", token |-> EnrolledToken, refresh_token |-> TRUE, expiry |-> 1,
     micro |-> 1]

\* The search tool of each module.
SearchTool(m) ==
    CASE m = "calendar" -> "search_calendar_events"
      [] m = "gmail"    -> "search_gmail"
      [] m = "tasks"    -> "list_task_lists"

\* A turn in flight invokes a search with an alias.
CallSearch(p) ==
    \E m \in AliasModules : \E a \in Aliases : Invoke(p, m, SearchTool(m), a)

RaceInit ==
    /\ onRender = FALSE
    /\ clientSecrets = TRUE
    /\ files = [d \in Dirs |-> [a \in Aliases |->
                  IF d = "credentials/" THEN EnrolledFile ELSE AbsentFile]]
    /\ now = EnrolledFile.expiry
    /\ issued = EnrolledToken
    /\ ProcsIdle
    /\ KeepQuiet
    /\ SurfaceQuiet
    /\ EnrollQuiet
    /\ ListQuiet

RaceStep(p) ==
    \/ CallSearch(p)
    \/ GcExists(p)
    \/ GcLoad(p)
    \/ GcRefreshAccepted(p)
    \/ GcRefreshRejected(p)
    \/ GcOpen(p)
    \/ GcOpenFails(p)
    \/ GcWrite(p)
    \/ GcWriteFails(p)
    \/ ToolRemote(p)

RaceNext == \E p \in Procs : RaceStep(p)

\* Two webhook requests in flight, each turn calling tools on its own thread,
\* once the enrolled access tokens have expired; each thread makes one call and
\* the calls overlap within one tick of the clock.
RaceSpec == RaceInit /\ [][RaceNext]_vars

(* ------------------------------- claims ------------------------------- *)

\* Process p is in a Calendar, Gmail or Tasks tool call.
AliasCall(p) == call[p].module \in AliasModules

\* The credential the call deserialized, and what it was at that moment.
ReadCreds(p) == FromAuthorizedUserFile(hist[p].read)

Deserialized(p) == AliasCall(p) /\ hist[p].loaded /\ hist[p].read.kind = "json"

ReadValid(p) == Deserialized(p) /\ Valid(ReadCreds(p), hist[p].loadedAt)

ReadExpired(p) == Deserialized(p) /\ Expired(ReadCreds(p), hist[p].loadedAt)

\* get_credentials has returned its credential to the tool.
GcReturned(p) == AliasCall(p) /\ pc[p] \in {"remote", "done"} /\ gcExc[p] = NoExc

\* get_credentials has raised.
GcFailed(p) == AliasCall(p) /\ pc[p] = "done" /\ gcExc[p] # NoExc

\* C1: when the stored credential is valid, get_credentials returns the
\* credential as stored, makes no refresh exchange and does not touch the
\* alias's token file.
C1_ValidReturnedUnchanged ==
    \A p \in Procs :
        ReadValid(p) =>
            /\ GcReturned(p)
            /\ creds[p] = ReadCreds(p)
            /\ hist[p].refreshes = 0
            /\ hist[p].opens = 0
            /\ hist[p].writes = 0
            /\ TokenFile(p) = hist[p].before

C1_Witness ==
    \E p \in Procs : ReadValid(p) /\ pc[p] = "done" /\ hist[p].remote = 1

\* C2 as stated: every call on an expired credential that has a refresh token
\* ends with one refresh exchange made and the refreshed record written, with a
\* strictly later expiry.
C2_AlwaysRefreshedAndPersisted ==
    \A p \in Procs :
        (ReadExpired(p) /\ ReadCreds(p).refresh_token /\ pc[p] = "done") =>
            /\ hist[p].refreshes = 1
            /\ hist[p].writes = 1
            /\ TokenFile(p).kind = "json"
            /\ TokenFile(p).expiry > hist[p].read.expiry

\* C2 amended: a call on an expired credential that has a refresh token makes
\* exactly one refresh exchange; when the exchange is accepted and the token
\* file is rewritten, the file of the same alias holds the refreshed record,
\* its expiry is strictly later than the one stored before, and the tool goes
\* on to its remote operation; otherwise the call fails with ConnectionError
\* and the tool issues no remote operation.
C2_RefreshOncePersistOnSuccess ==
    \A p \in Procs :
        (ReadExpired(p) /\ ReadCreds(p).refresh_token /\ pc[p] = "done") =>
            /\ hist[p].refreshes = 1
            /\ IF gcExc[p] = NoExc
               THEN /\ hist[p].opens = 1
                    /\ hist[p].writes = 1
                    /\ TokenFile(p) = ToJson(creds[p])
                    /\ TokenFile(p).expiry > hist[p].read.expiry
                    /\ TokenFile(p).token # hist[p].read.token
                    /\ hist[p].remote = 1
                    /\ ~Contains(result[p].text, "add_account.py")
               ELSE /\ gcExc[p].type = "ConnectionError"
                    /\ hist[p].writes = 0
                    /\ hist[p].remote = 0

C2_Witness ==
    \E p \in Procs :
        /\ ReadExpired(p) /\ ReadCreds(p).refresh_token /\ pc[p] = "done"
        /\ gcExc[p] = NoExc
        /\ hist[p].writes = 1
        /\ result[p] = Returned(SuccessText(call[p].module, call[p].tool, call[p].alias))

\* C3: when the stored credential is expired and has no refresh token,
\* get_credentials fails with ConnectionError, makes no refresh exchange and
\* leaves the token file as it was; the tool issues no remote operation.
C3_ExpiredUnrefreshableFails ==
    \A p \in Procs :
        (ReadExpired(p) /\ ~ReadCreds(p).refresh_token) =>
            /\ GcFailed(p)
            /\ gcExc[p].type = "ConnectionError"
            /\ hist[p].refreshes = 0
            /\ hist[p].opens = 0
            /\ hist[p].writes = 0
            /\ hist[p].remote = 0
            /\ TokenFile(p) = hist[p].before

C3_Witness ==
    \E p \in Procs : ReadExpired(p) /\ ~ReadCreds(p).refresh_token /\ pc[p] = "done"

\* C4: when the alias has no token file, get_credentials of each of the three
\* modules fails with FileNotFoundError before it deserializes, refreshes or
\* writes anything.
C4_MissingFileNotFound ==
    \A p \in Procs :
        (AliasCall(p) /\ hist[p].before.kind = "absent" /\ pc[p] # "gc_exists") =>
            /\ GcFailed(p)
            /\ gcExc[p].type = "FileNotFoundError"
            /\ ~hist[p].loaded
            /\ hist[p].refreshes = 0
            /\ hist[p].opens = 0
            /\ hist[p].writes = 0
            /\ TokenFile(p) = AbsentFile

C4_Witness ==
    \E p \in Procs :
        /\ call[p].module = "gmail"
        /\ onRender
        /\ files["credentials/"][call[p].alias].kind = "json"
        /\ hist[p].before.kind = "absent"
        /\ pc[p] = "done"

\* C5: a Calendar tool called with an alias that has no token file returns a
\* text that contains "Credentials file not found" and issues no remote call.
C5_CalendarMissingFileText ==
    \A p \in Procs :
        (call[p].module = "calendar" /\ hist[p].before.kind = "absent" /\ pc[p] = "done") =>
            /\ result[p].kind = "returned"
            /\ Contains(result[p].text, "Credentials file not found")
            /\ hist[p].remote = 0

C5_Witness ==
    \E p \in Procs :
        /\ call[p].module = "calendar"
        /\ call[p].tool = "delete_event"
        /\ call[p].alias = "work"
        /\ hist[p].before.kind = "absent"
        /\ pc[p] = "done"
        /\ ~clientSecrets

\* C6: a stored credential that is not valid and has a refresh token is always
\* refreshed, whatever makes it not valid; get_credentials fails only when
\* there is no refresh token or the refresh is rejected.
C6_NotValidWithRefreshTokenRefreshes ==
    \A p \in Procs :
        (Deserialized(p) /\ ~ReadValid(p) /\ ReadCreds(p).refresh_token /\ pc[p] = "done") =>
            hist[p].refreshes >= 1

\* C7: when get_credentials fails because the credential is invalid and cannot
\* be refreshed, the text that reaches the caller names add_account.py.
C7_InvalidTellsReenroll ==
    \A p \in Procs :
        (/\ Deserialized(p)
         /\ CredentialBranch(ReadCreds(p), hist[p].loadedAt) = "invalid"
         /\ pc[p] = "done") =>
            /\ Contains(gcExc[p].msg, "add_account.py")
            /\ Contains(result[p].text, "add_account.py")

\* C8: whenever get_credentials fails, the alias's token file is exactly what
\* it was before the call.
C8_FailureLeavesFileUntouched ==
    \A p \in Procs : GcFailed(p) => TokenFile(p) = hist[p].before

\* C9: every tool returns a text for every outcome; no exception leaves a tool.
C9_ToolsNeverRaise ==
    \A p \in Procs : pc[p] = "done" => result[p].kind = "returned"

\* C10: every webhook request ends with a reply envelope, whatever raised while
\* the request was handled (loading and saving the memory included).
C10_WebhookAlwaysReplies ==
    \A w \in Procs : wpc[w] = "finished" => wreply[w].kind = "envelope"

\* C11: when two calls for the same alias both refresh and persist, the record
\* in the token file once both have persisted is the one of the later refresh.
C11_LatestRefreshPersisted ==
    \A p \in Procs : \A q \in Procs :
        (/\ p # q
         /\ AliasCall(p) /\ AliasCall(q)
         /\ TokenPathOf(p) = TokenPathOf(q)
         /\ hist[p].writes = 1 /\ hist[q].writes = 1) =>
            /\ TokenFile(p).kind = "json"
            /\ TokenFile(p).token >= creds[p].token
            /\ TokenFile(p).token >= creds[q].token

\* C12: a step changes a token file only if it is the file of the alias of a
\* call that has made its refresh exchange and is rewriting its record; the
\* files of every other alias stay as they are.
C12_ResolveTouchesOwnFile ==
    [][\A d \in Dirs : \A b \in Aliases :
          files'[d][b] # files[d][b] =>
              \E p \in Procs :
                  /\ call[p].alias = b
                  /\ d = TokenDir(call[p].module, onRender)
                  /\ hist[p].refreshes = 1
                  /\ pc[p] \in {"gc_open", "gc_write"}
                  /\ files'[d][b] \in {EmptyFile, ToJson(creds[p])}]_vars

C12_Witness ==
    \E p \in Procs : \E q \in Procs :
        /\ AliasCall(p) /\ AliasCall(q)
        /\ call[p].alias # call[q].alias
        /\ hist[p].writes = 1
        /\ TokenFile(p) = ToJson(creds[p])
        /\ pc[q] = "gc_load"
        /\ TokenFile(q) = EnrolledFile

\* The agent answered the request (the try block of webhook() did not raise).
TurnAnswered(w) == agentResponse[w] # Apology

\* C13: a request's turn starts from the memory stored under its sender, or
\* from an empty memory when nothing is stored for the sender (also after a
\* restart of the server); a step changes the store only under the sender of
\* the request that is saving, to that request's memory, which after an
\* answered turn is the stored memory followed by the turn.
C13_MemoryKeyedBySender ==
    /\ [](\A w \in Procs :
            wpc[w] = "turn" =>
                IF db[req[w].sender].stored
                THEN wmem[w] = db[req[w].sender].turns
                ELSE wmem[w] = <<>>)
    /\ [][\A s \in Senders :
            db'[s] # db[s] =>
                \E w \in Procs :
                    /\ wpc[w] = "commit"
                    /\ req[w].sender = s
                    /\ db'[s] = [stored |-> TRUE, turns |-> wmem[w]]
                    /\ TurnAnswered(w) =>
                          wmem[w] = Append(db[s].turns, req[w].body)]_vars

C13_Witness ==
    \E w \in Procs : \E s \in Senders :
        /\ boots = 1
        /\ wpc[w] = "respond"
        /\ TurnAnswered(w)
        /\ s # req[w].sender
        /\ Len(db[req[w].sender].turns) = 2
        /\ Len(db[s].turns) = 1

\* C14: once a request whose sender no other request shares has saved and
\* finished, the store holds that request's memory under its sender.
C14_ConcurrentSavesKept ==
    \A w \in Procs :
        (/\ wpc[w] = "finished"
         /\ whist[w].saves = 1
         /\ \A v \in Procs \ {w} : req[v].sender # req[w].sender) =>
            db[req[w].sender] = [stored |-> TRUE, turns |-> wmem[w]]

\* C18 as stated: in both surfaces the executor runs with a limit that the
\* surface configures itself, and a turn never runs more rounds than it.
C18_ConfiguredLimitBoundsRounds ==
    /\ lpc = "turn" =>
          /\ ConfiguredMaxIterations("loop") # NotConfigured
          /\ lrounds <= ConfiguredMaxIterations("loop")
    /\ \A w \in Procs :
          wpc[w] = "turn" =>
              /\ ConfiguredMaxIterations("webhook") # NotConfigured
              /\ wrounds[w] <= ConfiguredMaxIterations("webhook")

\* C18 amended: a turn of the interactive loop runs at most the 10 rounds
\* agent.py configures, a turn of the webhook at most the 15 rounds of the
\* executor's default (server.py configures none); a turn that used up its
\* rounds ends with the executor's stop message (or the surface's error text)
\* and every turn ends.
C18_RoundsBoundedTurnsEnd ==
    /\ [](/\ lrounds <= LoopMaxIterations
          /\ (lpc = "input" /\ lrounds = LoopMaxIterations) =>
                lout \in {<<"Jarvis:">> \o StoppedOutput, LoopErrorText}
          /\ \A w \in Procs :
                /\ wrounds[w] <= ExecutorDefaultMaxIterations
                /\ (wpc[w] \notin {"idle", "load", "turn"}
                    /\ wrounds[w] = ExecutorDefaultMaxIterations) =>
                      agentResponse[w] \in {StoppedOutput, Apology})
    /\ (lpc = "turn") ~> (lpc # "turn")
    /\ \A w \in SeqProcs : (wpc[w] = "turn") ~> (wpc[w] # "turn")

C18_Witness ==
    \E w \in Procs :
        /\ wpc[w] = "finished"
        /\ wrounds[w] = ExecutorDefaultMaxIterations
        /\ wreply[w] = [kind |-> "envelope", text |-> StoppedOutput]
        /\ lout = <<"Goodbye!">>

\* C20: a request that has finished has loaded the sender's memory, run one
\* turn, saved the memory and returned one reply envelope with the agent's
\* reply, each once and in this order.
C20_EachStepOnceInOrder ==
    \A w \in Procs :
        /\ whist[w].replies <= whist[w].saves
        /\ whist[w].saves <= whist[w].turns
        /\ whist[w].turns <= whist[w].loads
        /\ whist[w].loads <= 1
        /\ wpc[w] = "finished" =>
              /\ whist[w] = [loads |-> 1, turns |-> 1, saves |-> 1, replies |-> 1]
              /\ wreply[w] = [kind |-> "envelope", text |-> agentResponse[w]]

\* C15: every tool module deserializes credentials with the scope set the
\* enrollment flow requested.
C15_OneScopeSet ==
    \A p \in Procs :
        (AliasCall(p) /\ hist[p].loaded) => Scopes(call[p].module) = EnrollmentScopes

\* C16: while the alias had a token file and the answer at the overwrite
\* prompt is not 'yes', the enrollment CLI starts no OAuth flow and the file is
\* what it was when the run began.
C16_NoOverwriteWithoutYes ==
    (/\ enroll.alias # "none"
     /\ PathExists(enroll.before)
     /\ Lower(Strip(enroll.answer)) # "yes") =>
        /\ EnrollFile = enroll.before
        /\ enroll.flows = 0
        /\ enroll.opens = 0
        /\ enroll.writes = 0
        /\ enroll.pc \in {"confirm", "exited"}

C16_Witness ==
    /\ enroll.pc = "exited"
    /\ enroll.alias = "work"
    /\ enroll.before.kind = "json"
    /\ enroll.answer = "y"
    /\ EnrollFile = enroll.before

\* C17: when a listing tool has returned, every entity of the page the service
\* returned is on some line of the output, and when the page holds an entity,
\* every line of the output holds an 'ID: <value>' token.
C17_EveryEntityOnEveryLine ==
    listing.pc = "done" =>
        /\ \A i \in DOMAIN listing.items :
              \E j \in DOMAIN listing.out : listing.out[j].id = listing.items[i].id
        /\ listing.items # <<>> =>
              \A j \in DOMAIN listing.out : listing.out[j].id # NoId

\* C21: the interactive loop ends when and only when the line read is 'exit' in
\* some letter case; that line is never given to the agent, and every other
\* line read starts an agent turn whose reply is the next thing printed.
C21_LoopEndsOnlyOnExit ==
    /\ [](lpc \in {"exited", "ended"} <=> Lower(lline) = "exit")
    /\ [](lpc = "turn" => Lower(lline) # "exit")
    /\ [][(lpc = "input" /\ lpc' = "turn") => lline' \in Bodies]_vars
    /\ [][(lpc = "turn" /\ lpc' = "input") =>
             lout' \in {<<"Jarvis:">> \o AgentOutput(lline),
                        <<"Jarvis:">> \o StoppedOutput, LoopErrorText}]_vars

\* C22: a tool call that began with a credential record in the alias's token
\* file ends with a credential record of the same grant (the same refresh
\* token) in that file: resolving and refreshing never remove the record.
C22_RecordNeverRemoved ==
    \A p \in Procs :
        (AliasCall(p) /\ pc[p] = "done" /\ hist[p].before.kind = "json") =>
            /\ TokenFile(p).kind = "json"
            /\ TokenFile(p).refresh_token = hist[p].before.refresh_token

C24_RejectedSessionDropped ==
    /\ [](\A p \in Procs : pc[p] \in {"keep_sync", "keep_body"} => keepInstance = "session")
    /\ [][\A p \in Procs :
            (pc[p] = "keep_sync" /\ ~keepSessionOk /\ pc'[p] = "done") =>
                keepInstance' = "none"]_vars

\* C25: an alias-taking tool issues its remote operation only after
\* get_credentials returned a credential in the same call; when get_credentials
\* raised, the tool issues no remote operation and returns exactly the text of
\* the exception get_credentials raised.
C25_RemoteOnlyAfterResolve ==
    \A p \in Procs :
        AliasCall(p) =>
            /\ (pc[p] = "remote" \/ hist[p].remote > 0) =>
                  /\ gcExc[p] = NoExc
                  /\ hist[p].loaded
                  /\ creds[p].present
            /\ GcFailed(p) =>
                  /\ hist[p].remote = 0
                  /\ result[p] = Returned(gcExc[p].msg)

C25_Witness ==
    \E p \in Procs :
        /\ GcFailed(p)
        /\ call[p].tool = "delete_task"
        /\ gcExc[p].type = "ConnectionError"
        /\ hist[p].refreshes = 1
        /\ result[p] = Returned(gcExc[p].msg)

\* C26: in either deployment layout, a call of any alias-taking tool resolves
\* its alias to the token file that the tools of the other two services resolve
\* the same alias to.
C26_OneLocationPerAlias ==
    \A p \in Procs :
        AliasCall(p) =>
            \A m \in AliasModules :
                TokenPathOf(p) = TokenPath(m, onRender, call[p].alias)

\* C27: a failed get_credentials raised FileNotFoundError, and the alias's token
\* file did not exist, or it raised ConnectionError, and the file existed: a
\* corrupt file, a credential that cannot be refreshed, a rejected refresh and
\* a failed rewrite all end in ConnectionError.
C27_TwoErrorKinds ==
    \A p \in Procs :
        GcFailed(p) =>
            \/ gcExc[p].type = "FileNotFoundError" /\ ~PathExists(hist[p].before)
            \/ gcExc[p].type = "ConnectionError" /\ PathExists(hist[p].before)

C27_Witness ==
    \E p \in Procs :
        /\ GcFailed(p)
        /\ call[p].module = "tasks"
        /\ hist[p].opens = 1
        /\ hist[p].writes = 0
        /\ TokenFile(p) = EmptyFile
        /\ gcExc[p].type = "ConnectionError"

\* C28: get_tasks renders every task of a non-empty page exactly once: the
\* output has as many lines as the page has tasks, and each task's id is on
\* exactly one of them.
C28_EachTaskRenderedOnce ==
    (listing.pc = "done" /\ listing.tool = "get_tasks" /\ listing.items # <<>>) =>
        /\ Len(listing.out) = Len(listing.items)
        /\ \A i \in DOMAIN listing.items :
              Cardinality({j \in DOMAIN listing.out :
                              listing.out[j].id = listing.items[i].id}) = 1

\* C29: every request that has finished has saved the sender's memory once and
\* returned a reply envelope; when its turn raised, the envelope holds the
\* apology and the memory stored for the sender is the memory the handler held
\* when the turn raised.
C29_FailedTurnSavedAndAnswered ==
    \A w \in Procs :
        wpc[w] = "finished" =>
            /\ whist[w].saves = 1
            /\ wreply[w].kind = "envelope"
            /\ ~TurnAnswered(w) =>
                  /\ wreply[w].text = Apology
                  /\ db[req[w].sender] = [stored |-> TRUE, turns |-> wmem[w]]

\* C30: when two requests of one sender, handled on two threads, have both
\* been answered by the agent and have both saved, the memory stored for the
\* sender holds the turn of each of them.
C30_SameSenderTurnsBothKept ==
    \A w1 \in Procs : \A w2 \in Procs :
        (/\ w1 # w2
         /\ req[w1].sender = req[w2].sender
         /\ wpc[w1] \in {"respond", "finished"} /\ wpc[w2] \in {"respond", "finished"}
         /\ whist[w1].saves = 1 /\ whist[w2].saves = 1
         /\ TurnAnswered(w1) /\ TurnAnswered(w2)) =>
            \E i \in DOMAIN db[req[w1].sender].turns :
                \E j \in DOMAIN db[req[w1].sender].turns :
                    /\ i # j
                    /\ db[req[w1].sender].turns[i] = req[w1].body
                    /\ db[req[w1].sender].turns[j] = req[w2].body


====
